---- MODULE Spec2Model ----
(***************************************************************************)
(* A model of src/src/steam.rs (SteamClient): discovery of the debugging   *)
(* context (get_context), the socket connection and its bounded send retry *)
(* (new, send_message, reboot), the patch applier (patch) and the log      *)
(* watcher / orchestrator (watch).                                         *)
(*                                                                         *)
(* Every function is a small state machine with its own position variable  *)
(* (gc_pc, sm_pc, ...).  A caller starts a callee by setting the callee's  *)
(* position and waits until the callee has returned.  A Rust panic (an     *)
(* unwrap() or expect() on a failure) is recorded in panic and stops       *)
(* the task.                                                               *)
(***************************************************************************)
EXTENDS Integers, Sequences, FiniteSets, TLC

VARIABLES
    latencies,      \* environment: the durations (ms) one HTTP GET may take
    endpoint,       \* environment: which tab lists the endpoint may answer with:
                    \*   "any", "nomatch" (none with the context), "program"
    panic,          \* "none", or the place of the unwrap()/expect() that panicked
    gc_pc,          \* get_context: "idle", "check", "get", "sleep", "ret"
    gc_elapsed,     \* get_context: start_time.elapsed() in ms
    gc_result,      \* get_context: the Option<String> it returned
    gc_resp,        \* get_context: the tabs of the response that made it return Some
    sm_pc,          \* send_message: "idle", "loop", "wait_gc", "ret"
    retries,        \* send_message: the local variable retries
    socket,         \* self.socket: the identity of the held WebSocket (0: no client)
    nextSock,       \* the identity the next socket opened by connect() gets
    sm_attempts,    \* send_message: self.socket.send calls made by this call
    sm_failed,      \* send_message: how many of them returned Err
    sm_sent,        \* send_message: how many of them returned Ok
    sm_disc,        \* send_message: get_context calls made by this call
    sm_last,        \* send_message: outcome of the last reconnect:
                    \*   "none" (no reconnect yet), "nodisc", "openerr", "replaced"
    sm_prevSock,    \* send_message: self.socket when the last send failed
    patches,        \* patch: the Vec<Patch> it is called with
    disk,           \* the file system: path -> content
    pa_pc,          \* patch: "idle", "rules", "write", "ret"
    pa_run,         \* patch: the how-manieth application in succession this is
    pa_i,           \* patch: index of the next element of patches
    opened_files,   \* patch: the HashMap opened_files (path -> content)
    pa_written,     \* patch: the entries of opened_files the write loop has done
    pa_result,      \* patch: "none", "Ok" or "Err" (the Result returned)
    pa_reads,       \* patch: fs::read_to_string calls of this call, per path
    pa_writes,      \* patch: fs::write calls of this call, per path
    disk0,          \* patch: the file system when this call began
    w_pc,           \* watch and its background task: the position
    cycle,          \* the connect -> patch -> reload cycle in progress:
                    \*   "none", "startup" or "event"
    running,        \* what is_running() answered: "unset", "yes", "no"
    device,         \* environment: create_device() is Some
    home,           \* environment: dirs::home_dir() is Some
    watched,        \* inotify holds a MODIFY watch on the log file
    log,            \* the log file: its lines
    events,         \* inotify: the modify events not read yet
    batch,          \* the task: events of the batch read that are not handled yet
    writes,         \* how often the log file has been written to so far
    cyc_apply,      \* the cycle: what its patch call returned ("none": not yet)
    cyc_reload,     \* the cycle: reboot() has been called
    n_marker,       \* history: marker lines appended to the watched log file
    n_trig,         \* history: cycles the task has begun for an event
    raced           \* history: the log file was written to while an earlier
                    \*   modify event had not been handled yet

vars == << latencies, endpoint, panic, gc_pc, gc_elapsed, gc_result, gc_resp,
           sm_pc, retries, socket, nextSock,
           sm_attempts, sm_failed, sm_sent, sm_disc, sm_last, sm_prevSock,
           patches, disk, pa_pc, pa_run, pa_i, opened_files, pa_written, pa_result,
           pa_reads, pa_writes, disk0,
           w_pc, cycle, running, device, home, watched, log, events, batch, writes,
           cyc_apply, cyc_reload, n_marker, n_trig, raced >>

envVars == << latencies, endpoint >>
gcVars == << gc_pc, gc_elapsed, gc_result, gc_resp >>
smVars == << sm_pc, retries, socket, nextSock,
             sm_attempts, sm_failed, sm_sent, sm_disc, sm_last, sm_prevSock >>

paVars == << patches, disk, pa_pc, pa_run, pa_i, opened_files, pa_written,
             pa_result, pa_reads, pa_writes, disk0 >>
hVars == << n_marker, n_trig, raced >>
wVars == << w_pc, cycle, running, device, home, watched, log, events, batch, writes,
            cyc_apply, cyc_reload, hVars >>
restVars == << paVars, wVars >>

(***************************************************************************)
(* Program constants.                                                      *)
(***************************************************************************)
TimeoutMs == 60000
SleepMs == 50
Retries == 3
ContextTitle == "SharedJSContext"

(***************************************************************************)
(* Bounds of the model.                                                    *)
(***************************************************************************)
MaxTabs == 2
MaxRules == 2
MaxWrites == 2

(***************************************************************************)
(* struct Tab and the discovery responses.                                 *)
(***************************************************************************)
Titles == {ContextTitle, "sharedjscontext", "Steam"}
Urls == {"", "ws://a", "ws://b"}
Tab == [title : Titles, webSocketDebuggerUrl : Urls]

\* Vec<Tab> as serde_json::from_slice yields it.
SeqsUpTo(S, n) == UNION {[1..k -> S] : k \in 0..n}
Responses == SeqsUpTo(Tab, MaxTabs)

\* The tab lists without any tab that get_context accepts.
NoMatchResponses ==
    {r \in Responses :
        \A i \in 1..Len(r) :
            r[i].title # "SharedJSContext" \/ r[i].webSocketDebuggerUrl = ""}

\* The tab lists of the whole program's endpoint: no tab, a tab of another
\* title, the context.
ProgramBodies ==
    { << >>,
      << [title |-> "Steam", webSocketDebuggerUrl |-> "ws://a"] >>,
      << [title |-> "SharedJSContext", webSocketDebuggerUrl |-> "ws://b"] >> }

\* The tab lists the endpoint may answer a GET with.
Bodies ==
    CASE endpoint = "any" -> Responses
      [] endpoint = "nomatch" -> NoMatchResponses
      [] endpoint = "program" -> ProgramBodies

\* Option<String>
None == [some |-> FALSE, url |-> ""]
Some(u) == [some |-> TRUE, url |-> u]

\* One GET that outlasts the whole timeout.
LongGetMs == TimeoutMs + SleepMs + SleepMs
\* GET durations: an endpoint that answers (or refuses) at once, or very late.
FineLatencies == {0, LongGetMs}
\* GET durations of a slow endpoint.
CoarseLatencies == {TimeoutMs \div 2, LongGetMs}

(***************************************************************************)
(* get_context                                                             *)
(***************************************************************************)
\* The closure without its second condition.
TabMatchesTitle(tab) == tab.title = ContextTitle

\* The closure given to find().
TabMatches(tab) == tab.title = ContextTitle /\ tab.webSocketDebuggerUrl # ""

\* tabs.into_iter().find(..): the index of the first tab matching, 0 if none.
RECURSIVE FindFrom(_, _)
FindFrom(tabs, i) ==
    IF i > Len(tabs) THEN 0
    ELSE IF TabMatches(tabs[i]) THEN i
    ELSE FindFrom(tabs, i + 1)

FindTab(tabs) == FindFrom(tabs, 1)

\* The comparison with >= for >.
TimedOutAt(elapsed) == elapsed >= TimeoutMs

\* start_time.elapsed() > Duration::from_secs(60)
TimedOut(elapsed) == elapsed > TimeoutMs

\* The caller has taken the result: the locals are dropped.
GcDrop ==
    /\ gc_pc' = "idle"
    /\ gc_elapsed' = 0
    /\ gc_result' = None
    /\ gc_resp' = << >>

\* The call: Client::new(), start_time = Instant::now().
GcCall ==
    /\ gc_pc' = "check"
    /\ gc_elapsed' = 0
    /\ gc_result' = None
    /\ gc_resp' = << >>

\* Loop head, timeout reached: return None.
GcTimeout ==
    /\ panic = "none"
    /\ gc_pc = "check"
    /\ TimedOut(gc_elapsed)
    /\ gc_pc' = "ret"
    /\ gc_result' = None
    /\ UNCHANGED << gc_elapsed, gc_resp >>
    /\ UNCHANGED << restVars, envVars, panic, smVars >>

\* Loop head, no timeout: issue the GET.
GcGet ==
    /\ panic = "none"
    /\ gc_pc = "check"
    /\ ~TimedOut(gc_elapsed)
    /\ gc_pc' = "get"
    /\ UNCHANGED << gc_elapsed, gc_result, gc_resp >>
    /\ UNCHANGED << restVars, envVars, panic, smVars >>

\* The time a GET that took d ms adds.
GcAwait(d) == gc_elapsed' = gc_elapsed + d

\* client.get(..).await is Err(_): "Couldn't connect to Steam".
GcGetErr ==
    /\ panic = "none"
    /\ gc_pc = "get"
    /\ \E d \in latencies : GcAwait(d)
    /\ gc_pc' = "sleep"
    /\ UNCHANGED << gc_result, gc_resp >>
    /\ UNCHANGED << restVars, envVars, panic, smVars >>

\* Ok(response), but reading the body fails: to_bytes(..).await.unwrap() panics.
GcBodyErr ==
    /\ panic = "none"
    /\ gc_pc = "get"
    /\ \E d \in latencies : GcAwait(d)
    /\ panic' = "to_bytes"
    /\ UNCHANGED << gc_pc, gc_result, gc_resp >>
    /\ UNCHANGED << restVars, envVars, smVars >>

\* What the body's tabs make of the iteration: return Some(url), or go on.
GcTabs(tabs) ==
    LET i == FindTab(tabs) IN
    IF i # 0
    THEN /\ gc_pc' = "ret"
         /\ gc_result' = Some(tabs[i].webSocketDebuggerUrl)
         /\ gc_resp' = tabs
    ELSE /\ gc_pc' = "sleep"
         /\ UNCHANGED << gc_result, gc_resp >>

\* Ok(response) with a body that is no JSON array of tabs: unwrap_or_else(Vec::new).
GcBodyUnparseable ==
    /\ panic = "none"
    /\ gc_pc = "get"
    /\ \E d \in latencies : GcAwait(d)
    /\ GcTabs(<< >>)
    /\ UNCHANGED << restVars, envVars, panic, smVars >>

\* Ok(response) with a body that parses to tabs.
GcBodyTabs ==
    /\ panic = "none"
    /\ gc_pc = "get"
    /\ \E d \in latencies : GcAwait(d)
    /\ \E tabs \in Bodies : GcTabs(tabs)
    /\ UNCHANGED << restVars, envVars, panic, smVars >>

\* sleep(Duration::from_millis(50)).await, then the loop head again.
GcSleep ==
    /\ panic = "none"
    /\ gc_pc = "sleep"
    /\ gc_elapsed' = gc_elapsed + SleepMs
    /\ gc_pc' = "check"
    /\ UNCHANGED << gc_result, gc_resp >>
    /\ UNCHANGED << restVars, envVars, panic, smVars >>

GcNext ==
    \/ GcTimeout
    \/ GcGet
    \/ GcGetErr
    \/ GcBodyErr
    \/ GcBodyUnparseable
    \/ GcBodyTabs
    \/ GcSleep


(***************************************************************************)
(* send_message                                                            *)
(***************************************************************************)
\* The call: let mut retries = 3.
SmCall ==
    /\ sm_pc' = "loop"
    /\ retries' = Retries
    /\ sm_attempts' = 0
    /\ sm_failed' = 0
    /\ sm_sent' = 0
    /\ sm_disc' = 0
    /\ sm_last' = "none"
    /\ sm_prevSock' = socket

\* while retries > 0
LoopGoesOn(r) == r > 0

\* retries -= 1 moved into the if let Some(context) block.
DecrementIfDiscovered(r, discovered) == IF discovered THEN r - 1 ELSE r

\* retries -= 1, the last statement of the Err arm: whatever get_context
\* and connect gave (discovered: get_context returned Some).
DecrementAlways(r, discovered) == r - 1

\* self.socket.send(..) is Ok(_): break.
SmSendOk ==
    /\ panic = "none"
    /\ sm_pc = "loop"
    /\ LoopGoesOn(retries)
    /\ sm_attempts' = sm_attempts + 1
    /\ sm_sent' = sm_sent + 1
    /\ sm_pc' = "ret"
    /\ UNCHANGED << retries, socket, nextSock, sm_failed, sm_disc, sm_last, sm_prevSock >>
    /\ UNCHANGED << restVars, envVars, panic, gcVars >>

\* self.socket.send(..) is Err(_): log, call get_context.
SmSendErr ==
    /\ panic = "none"
    /\ sm_pc = "loop"
    /\ LoopGoesOn(retries)
    /\ sm_attempts' = sm_attempts + 1
    /\ sm_failed' = sm_failed + 1
    /\ sm_disc' = sm_disc + 1
    /\ sm_prevSock' = socket
    /\ sm_pc' = "wait_gc"
    /\ GcCall
    /\ UNCHANGED << retries, socket, nextSock, sm_sent, sm_last >>
    /\ UNCHANGED << restVars, envVars, panic >>

\* get_context returned None: nothing to open; retries -= 1.
SmNoContext ==
    /\ panic = "none"
    /\ sm_pc = "wait_gc"
    /\ gc_pc = "ret"
    /\ ~gc_result.some
    /\ GcDrop
    /\ retries' = DecrementAlways(retries, FALSE)
    /\ sm_last' = "nodisc"
    /\ sm_pc' = "loop"
    /\ UNCHANGED << socket, nextSock, sm_attempts, sm_failed, sm_sent, sm_disc,
                    sm_prevSock >>
    /\ UNCHANGED << restVars, envVars, panic >>

\* What Ok((socket, _)) of connect(context) does to the client.
Replaced == socket' = nextSock /\ nextSock' = nextSock + 1

\* get_context returned Some(context), connect(context) is Ok: self.socket = socket.
SmOpenOk ==
    /\ panic = "none"
    /\ sm_pc = "wait_gc"
    /\ gc_pc = "ret"
    /\ gc_result.some
    /\ GcDrop
    /\ Replaced
    /\ retries' = DecrementAlways(retries, TRUE)
    /\ sm_last' = "replaced"
    /\ sm_pc' = "loop"
    /\ UNCHANGED << sm_attempts, sm_failed, sm_sent, sm_disc, sm_prevSock >>
    /\ UNCHANGED << restVars, envVars, panic >>

\* get_context returned Some(context), connect(context) is Err: "Still can't connect".
SmOpenErr ==
    /\ panic = "none"
    /\ sm_pc = "wait_gc"
    /\ gc_pc = "ret"
    /\ gc_result.some
    /\ GcDrop
    /\ retries' = DecrementAlways(retries, TRUE)
    /\ sm_last' = "openerr"
    /\ sm_pc' = "loop"
    /\ UNCHANGED << socket, nextSock, sm_attempts, sm_failed, sm_sent, sm_disc,
                    sm_prevSock >>
    /\ UNCHANGED << restVars, envVars, panic >>

\* The loop condition fails: send_message returns.
SmGiveUp ==
    /\ panic = "none"
    /\ sm_pc = "loop"
    /\ ~LoopGoesOn(retries)
    /\ sm_pc' = "ret"
    /\ UNCHANGED << retries, socket, nextSock,
                    sm_attempts, sm_failed, sm_sent, sm_disc, sm_last, sm_prevSock >>
    /\ UNCHANGED << restVars, envVars, panic, gcVars >>

SmNext ==
    \/ SmSendOk
    \/ SmSendErr
    \/ SmNoContext
    \/ SmOpenOk
    \/ SmOpenErr
    \/ SmGiveUp

(***************************************************************************)
(* patch                                                                   *)
(***************************************************************************)
\* The files patches may name, and the texts of the model.  A text is a
\* sequence of characters.
Files == {"f1", "f2"}
FindTexts == {<<"a">>, <<"b">>, <<"a", "b">>}
ReplaceTexts == {<<"b">>, <<"a", "a">>}
Contents == {<<"a">>, <<"a", "b">>}

\* struct Patch, with destination.get_file() resolved to its path.
Patch == [destination : Files, text_to_find : FindTexts, replacement_text : ReplaceTexts]
PatchLists == SeqsUpTo(Patch, MaxRules)

\* s.match_indices(from): the starts of the matches of from in s, found from
\* the left and not overlapping; the empty pattern matches at every boundary.
RECURSIVE MatchIndices(_, _, _)
MatchIndices(s, from, i) ==
    IF from = << >>
    THEN IF i > Len(s) + 1 THEN << >> ELSE <<i>> \o MatchIndices(s, from, i + 1)
    ELSE IF i + Len(from) - 1 > Len(s) THEN << >>
    ELSE IF SubSeq(s, i, i + Len(from) - 1) = from
         THEN <<i>> \o MatchIndices(s, from, i + Len(from))
         ELSE MatchIndices(s, from, i + 1)

\* The loop of str::replace: for each match, the text since the last match
\* and then the replacement.
RECURSIVE Pushed(_, _, _, _, _, _)
Pushed(s, from, to, starts, k, last_end) ==
    IF k > Len(starts) THEN << >>
    ELSE SubSeq(s, last_end, starts[k] - 1) \o to
         \o Pushed(s, from, to, starts, k + 1, starts[k] + Len(from))

\* last_end after the loop (as a 1-based position).
LastEnd(starts, from) ==
    IF starts = << >> THEN 1 ELSE starts[Len(starts)] + Len(from)

\* str::replace without its last statement: the text after the last match is lost.
ReplaceNoTail(s, from, to) ==
    Pushed(s, from, to, MatchIndices(s, from, 1), 1, 1)

\* content.replace(text_to_find, replacement_text)
Replace(s, from, to) ==
    LET starts == MatchIndices(s, from, 1) IN
    Pushed(s, from, to, starts, 1, 1) \o SubSeq(s, LastEnd(starts, from), Len(s))

\* insert for entry().or_insert_with: every rule reads its file again.
VacantAlways(path) == TRUE

Vacant(path) == path \notin DOMAIN opened_files

NoCounts == [f \in Files |-> 0]

\* The call: opened_files = HashMap::new().
PaCall ==
    /\ pa_pc' = "rules"
    /\ pa_i' = 1
    /\ opened_files' = << >>
    /\ pa_written' = {}
    /\ pa_result' = "none"
    /\ pa_reads' = NoCounts
    /\ pa_writes' = NoCounts
    /\ disk0' = disk

\* The caller has taken the Result: the locals are dropped.
PaDrop ==
    /\ pa_pc' = "idle"
    /\ pa_i' = 1
    /\ opened_files' = << >>
    /\ pa_written' = {}
    /\ pa_result' = "none"
    /\ pa_reads' = NoCounts
    /\ pa_writes' = NoCounts
    /\ disk0' = disk

\* opened_files with the entry of path set to content.
Inserted(path, content) ==
    [f \in (DOMAIN opened_files) \cup {path} |->
        IF f = path THEN content ELSE opened_files[f]]

\* Every rule applied to the file as patch found it, not to the buffer.
SubstitutedOriginal(patch, content) ==
    Replace(disk0[patch.destination], patch.text_to_find, patch.replacement_text)

\* The buffer of the patch's file as the rule leaves it.
Substituted(patch, content) ==
    Replace(content, patch.text_to_find, patch.replacement_text)


\* One rule whose file is not in opened_files yet: read it, then replace.
PaRuleRead ==
    /\ panic = "none"
    /\ pa_pc = "rules"
    /\ pa_i <= Len(patches)
    /\ LET patch == patches[pa_i]
           path == patch.destination
       IN /\ Vacant(path)
          /\ pa_reads' = [pa_reads EXCEPT ![path] = @ + 1]
          /\ opened_files' = Inserted(path, Substituted(patch, disk[path]))
    /\ pa_i' = pa_i + 1
    /\ UNCHANGED << patches, disk, pa_pc, pa_run, pa_written, pa_result, pa_writes, disk0 >>
    /\ UNCHANGED << envVars, panic, gcVars, smVars, wVars >>

\* One rule whose file is not in opened_files yet, and fs::read_to_string
\* fails: the unwrap() in the closure panics.
PaReadErr ==
    /\ panic = "none"
    /\ pa_pc = "rules"
    /\ pa_i <= Len(patches)
    /\ Vacant(patches[pa_i].destination)
    /\ pa_reads' = [pa_reads EXCEPT ![patches[pa_i].destination] = @ + 1]
    /\ panic' = "read_to_string"
    /\ UNCHANGED << patches, disk, pa_pc, pa_run, pa_i, opened_files, pa_written,
                    pa_result, pa_writes, disk0 >>
    /\ UNCHANGED << envVars, gcVars, smVars, wVars >>

\* One rule whose file is in opened_files: replace in the buffer.
PaRuleCached ==
    /\ panic = "none"
    /\ pa_pc = "rules"
    /\ pa_i <= Len(patches)
    /\ LET patch == patches[pa_i]
           path == patch.destination
       IN /\ ~Vacant(path)
          /\ opened_files' = Inserted(path, Substituted(patch, opened_files[path]))
    /\ pa_i' = pa_i + 1
    /\ UNCHANGED << patches, disk, pa_pc, pa_run, pa_written, pa_result,
                    pa_reads, pa_writes, disk0 >>
    /\ UNCHANGED << envVars, panic, gcVars, smVars, wVars >>

\* The first loop is over.
PaRulesDone ==
    /\ panic = "none"
    /\ pa_pc = "rules"
    /\ pa_i > Len(patches)
    /\ pa_pc' = "write"
    /\ UNCHANGED << patches, disk, pa_run, pa_i, opened_files, pa_written, pa_result,
                    pa_reads, pa_writes, disk0 >>
    /\ UNCHANGED << envVars, panic, gcVars, smVars, wVars >>

\* The entries the write loop has yet to visit; a HashMap iterates in any order.
ToWrite == (DOMAIN opened_files) \ pa_written

\* fs::write(path, content) is Ok.
PaWrite ==
    /\ panic = "none"
    /\ pa_pc = "write"
    /\ \E path \in ToWrite :
          /\ disk' = [disk EXCEPT ![path] = opened_files[path]]
          /\ pa_written' = pa_written \cup {path}
          /\ pa_writes' = [pa_writes EXCEPT ![path] = @ + 1]
    /\ UNCHANGED << patches, pa_pc, pa_run, pa_i, opened_files, pa_result, pa_reads, disk0 >>
    /\ UNCHANGED << envVars, panic, gcVars, smVars, wVars >>

\* fs::write(path, content) is Err, and what was written before is undone.
PaWriteErrRollsBack ==
    /\ panic = "none"
    /\ pa_pc = "write"
    /\ \E path \in ToWrite : pa_writes' = [pa_writes EXCEPT ![path] = @ + 1]
    /\ disk' = disk0
    /\ pa_result' = "Err"
    /\ pa_pc' = "ret"
    /\ UNCHANGED << patches, pa_run, pa_i, opened_files, pa_written, pa_reads, disk0 >>
    /\ UNCHANGED << envVars, panic, gcVars, smVars, wVars >>

\* fs::write(path, content) is Err: the ? returns it.  The file is as it was
\* (it could not be opened) or truncated (the write after the open failed).
PaWriteErr ==
    /\ panic = "none"
    /\ pa_pc = "write"
    /\ \E path \in ToWrite :
          /\ \E left \in {disk[path], << >>} : disk' = [disk EXCEPT ![path] = left]
          /\ pa_writes' = [pa_writes EXCEPT ![path] = @ + 1]
    /\ pa_result' = "Err"
    /\ pa_pc' = "ret"
    /\ UNCHANGED << patches, pa_run, pa_i, opened_files, pa_written, pa_reads, disk0 >>
    /\ UNCHANGED << envVars, panic, gcVars, smVars, wVars >>

\* The write loop is over: Ok(()).
PaOk ==
    /\ panic = "none"
    /\ pa_pc = "write"
    /\ ToWrite = {}
    /\ pa_result' = "Ok"
    /\ pa_pc' = "ret"
    /\ UNCHANGED << patches, disk, pa_run, pa_i, opened_files, pa_written,
                    pa_reads, pa_writes, disk0 >>
    /\ UNCHANGED << envVars, panic, gcVars, smVars, wVars >>

PaNext ==
    \/ PaRuleRead
    \/ PaReadErr
    \/ PaRuleCached
    \/ PaRulesDone
    \/ PaWrite
    \/ PaWriteErr
    \/ PaOk

(***************************************************************************)
(* new, reboot and watch                                                   *)
(***************************************************************************)
\* What a line of the log is to the task: one with "Verification complete"
\* in it, one without, one that is not UTF-8.
Lines == {"marker", "other", "invalid"}

\* The caller of send_message has it back: the locals are dropped.
SmDrop ==
    /\ sm_pc' = "idle"
    /\ retries' = 0
    /\ sm_attempts' = 0
    /\ sm_failed' = 0
    /\ sm_sent' = 0
    /\ sm_disc' = 0
    /\ sm_last' = "none"
    /\ sm_prevSock' = 0

\* An event's cycle is left to run by itself and the for loop goes on.
CycleBeginsDetached(which) ==
    /\ cycle' = which
    /\ cyc_apply' = "none"
    /\ cyc_reload' = FALSE
    /\ GcCall
    /\ w_pc' = IF which = "event" THEN "next_event" ELSE "new"

\* A cycle begins with Self::new(): get_context is called.
CycleBegins(which) ==
    /\ cycle' = which
    /\ cyc_apply' = "none"
    /\ cyc_reload' = FALSE
    /\ GcCall
    /\ w_pc' = "new"

\* Where control is once the cycle is over: after the startup cycle the
\* watch is set up, after an event's cycle the for loop goes on.
AfterCycle == IF cycle = "startup" THEN "inotify" ELSE "next_event"

\* new() returned None and the cycle goes on all the same.
AfterNoClientGoesOn == "device"

\* Where control is when new() returned None: the ? of the startup cycle
\* returns None from watch; an event's if let has nothing to do.
AfterNoClient == IF cycle = "startup" THEN "ret_none" ELSE "next_event"

\* watch: is_running() is true.
WIsRunning ==
    /\ panic = "none"
    /\ w_pc = "start"
    /\ running' = "yes"
    /\ CycleBegins("startup")
    /\ UNCHANGED << device, home, watched, log, events, batch, writes, hVars >>
    /\ UNCHANGED << envVars, panic, smVars, paVars >>

\* is_running() is false and the startup cycle is run all the same.
WNotRunningCycle ==
    /\ panic = "none"
    /\ w_pc = "start"
    /\ running' = "no"
    /\ CycleBegins("startup")
    /\ UNCHANGED << device, home, watched, log, events, batch, writes, hVars >>
    /\ UNCHANGED << envVars, panic, smVars, paVars >>

\* watch: is_running() is false.
WNotRunning ==
    /\ panic = "none"
    /\ w_pc = "start"
    /\ running' = "no"
    /\ w_pc' = "inotify"
    /\ UNCHANGED << cycle, device, home, watched, log, events, batch, writes, hVars,
                    cyc_apply, cyc_reload >>
    /\ UNCHANGED << envVars, panic, gcVars, smVars, paVars >>

\* new: get_context returned None, so does new.
WNewNoContext ==
    /\ panic = "none"
    /\ w_pc = "new"
    /\ gc_pc = "ret"
    /\ ~gc_result.some
    /\ GcDrop
    /\ w_pc' = AfterNoClient
    /\ cycle' = "none"
    /\ UNCHANGED << running, device, home, watched, log, events, batch, writes, hVars,
                    cyc_apply, cyc_reload >>
    /\ UNCHANGED << envVars, panic, smVars, paVars >>

\* new: connect(context) is Err: "Couldn't connect to Steam!", None.
WNewOpenErr ==
    /\ panic = "none"
    /\ w_pc = "new"
    /\ gc_pc = "ret"
    /\ gc_result.some
    /\ GcDrop
    /\ w_pc' = AfterNoClient
    /\ cycle' = "none"
    /\ UNCHANGED << running, device, home, watched, log, events, batch, writes, hVars,
                    cyc_apply, cyc_reload >>
    /\ UNCHANGED << envVars, panic, smVars, paVars >>

\* new: connect(context) is Ok: Some(SteamClient { socket }).
WNewOpenOk ==
    /\ panic = "none"
    /\ w_pc = "new"
    /\ gc_pc = "ret"
    /\ gc_result.some
    /\ GcDrop
    /\ Replaced
    /\ w_pc' = "device"
    /\ UNCHANGED << sm_pc, retries, sm_attempts, sm_failed, sm_sent, sm_disc, sm_last,
                    sm_prevSock >>
    /\ UNCHANGED << cycle, running, device, home, watched, log, events, batch, writes, hVars,
                    cyc_apply, cyc_reload >>
    /\ UNCHANGED << envVars, panic, paVars >>

\* reboot: send_message with Page.reload.
Reboot ==
    /\ SmCall
    /\ cyc_reload' = TRUE
    /\ w_pc' = "reboot"

\* create_device() is Some(device): client.patch(device.get_patches()).
WDevice ==
    /\ panic = "none"
    /\ w_pc = "device"
    /\ device
    /\ PaCall
    /\ w_pc' = "patch"
    /\ UNCHANGED << patches, disk, pa_run >>
    /\ UNCHANGED << cycle, running, device, home, watched, log, events, batch, writes, hVars,
                    cyc_apply, cyc_reload >>
    /\ UNCHANGED << envVars, panic, gcVars, smVars >>

\* create_device() is None: client.reboot() at once.
WNoDevice ==
    /\ panic = "none"
    /\ w_pc = "device"
    /\ ~device
    /\ Reboot
    /\ UNCHANGED << socket, nextSock >>
    /\ UNCHANGED << cycle, running, device, home, watched, log, events, batch, writes, hVars,
                    cyc_apply >>
    /\ UNCHANGED << envVars, panic, gcVars, paVars >>

\* patch returned Ok(_): "Steam patched", then client.reboot().
WPatched ==
    /\ panic = "none"
    /\ w_pc = "patch"
    /\ pa_pc = "ret"
    /\ pa_result = "Ok"
    /\ cyc_apply' = "Ok"
    /\ PaDrop
    /\ Reboot
    /\ UNCHANGED << patches, disk, pa_run, socket, nextSock >>
    /\ UNCHANGED << cycle, running, device, home, watched, log, events, batch, writes, hVars >>
    /\ UNCHANGED << envVars, panic, gcVars >>

\* patch returned Err(_): "Couldn't patch Steam", then client.reboot().
WPatchFailed ==
    /\ panic = "none"
    /\ w_pc = "patch"
    /\ pa_pc = "ret"
    /\ pa_result = "Err"
    /\ cyc_apply' = "Err"
    /\ PaDrop
    /\ Reboot
    /\ UNCHANGED << patches, disk, pa_run, socket, nextSock >>
    /\ UNCHANGED << cycle, running, device, home, watched, log, events, batch, writes, hVars >>
    /\ UNCHANGED << envVars, panic, gcVars >>

\* reboot returned: the cycle is over and its client is dropped (sockets
\* are numbered within a cycle).
WRebooted ==
    /\ panic = "none"
    /\ w_pc = "reboot"
    /\ sm_pc = "ret"
    /\ SmDrop
    /\ socket' = 0
    /\ nextSock' = 1
    /\ w_pc' = AfterCycle
    /\ cycle' = "none"
    /\ UNCHANGED << running, device, home, watched, log, events, batch, writes, hVars,
                    cyc_apply, cyc_reload >>
    /\ UNCHANGED << envVars, panic, gcVars, paVars >>

\* Inotify::init() is Ok.
WInotifyInit ==
    /\ panic = "none"
    /\ w_pc = "inotify"
    /\ w_pc' = "add_watch"
    /\ UNCHANGED << cycle, running, device, home, watched, log, events, batch, writes, hVars,
                    cyc_apply, cyc_reload >>
    /\ UNCHANGED << envVars, panic, gcVars, smVars, paVars >>

\* Inotify::init() is Err: expect("Failed to initialize inotify") panics.
WInotifyInitErr ==
    /\ panic = "none"
    /\ w_pc = "inotify"
    /\ panic' = "inotify_init"
    /\ UNCHANGED << envVars, gcVars, smVars, paVars, wVars >>

\* get_log_path() is Some and watches().add(log_path, MODIFY) is Ok; then
\* "Watching Steam log..." and spawn_blocking: the task is at its first read.
WAddWatch ==
    /\ panic = "none"
    /\ w_pc = "add_watch"
    /\ home
    /\ watched' = TRUE
    /\ w_pc' = "armed"
    /\ UNCHANGED << cycle, running, device, home, log, events, batch, writes, hVars,
                    cyc_apply, cyc_reload >>
    /\ UNCHANGED << envVars, panic, gcVars, smVars, paVars >>

\* get_log_path() is Some and watches().add(..) is Err: unwrap() panics.
WAddWatchErr ==
    /\ panic = "none"
    /\ w_pc = "add_watch"
    /\ home
    /\ panic' = "watches_add"
    /\ UNCHANGED << envVars, gcVars, smVars, paVars, wVars >>

\* get_log_path() is None: no watch is added, and the task is spawned.
WNoLogPath ==
    /\ panic = "none"
    /\ w_pc = "add_watch"
    /\ ~home
    /\ w_pc' = "armed"
    /\ UNCHANGED << cycle, running, device, home, watched, log, events, batch, writes, hVars,
                    cyc_apply, cyc_reload >>
    /\ UNCHANGED << envVars, panic, gcVars, smVars, paVars >>

\* read_events_blocking is Ok(events): the events that are there.
WReadEvents ==
    /\ panic = "none"
    /\ w_pc = "armed"
    /\ events > 0
    /\ batch' = events
    /\ events' = 0
    /\ w_pc' = "next_event"
    /\ UNCHANGED << cycle, running, device, home, watched, log, writes, hVars,
                    cyc_apply, cyc_reload >>
    /\ UNCHANGED << envVars, panic, gcVars, smVars, paVars >>

\* read_events_blocking is Err: the loop reads again.
WReadEventsErr ==
    /\ panic = "none"
    /\ w_pc = "armed"
    /\ UNCHANGED vars

\* The for loop has handled every event of the batch.
WBatchDone ==
    /\ panic = "none"
    /\ w_pc = "next_event"
    /\ batch = 0
    /\ w_pc' = "armed"
    /\ UNCHANGED << cycle, running, device, home, watched, log, events, batch, writes, hVars,
                    cyc_apply, cyc_reload >>
    /\ UNCHANGED << envVars, panic, gcVars, smVars, paVars >>

\* An event: File::open(log path) is Err, unwrap() panics.
WOpenErr ==
    /\ panic = "none"
    /\ w_pc = "next_event"
    /\ batch > 0
    /\ panic' = "file_open"
    /\ UNCHANGED << envVars, gcVars, smVars, paVars, wVars >>

\* The first line instead of the last.
FirstLine == IF log = << >> THEN "empty" ELSE log[1]

\* reader.lines().last()
LastLine == IF log = << >> THEN "empty" ELSE log[Len(log)]

\* Any line that could be read, whatever is in it.
ContainsAnyText(line) == line \in {"marker", "other"}

\* line.contains("Verification complete")
ContainsMarker(line) == line = "marker"

\* An event whose last line has no marker, is not UTF-8 ("Error reading
\* line"), or is missing ("The file is empty"): on to the next event.
WNoTrigger ==
    /\ panic = "none"
    /\ w_pc = "next_event"
    /\ batch > 0
    /\ ~ContainsMarker(LastLine)
    /\ batch' = batch - 1
    /\ UNCHANGED << w_pc, cycle, running, device, home, watched, log, events, writes, hVars,
                    cyc_apply, cyc_reload >>
    /\ UNCHANGED << envVars, panic, gcVars, smVars, paVars >>

\* An event whose last line has the marker: a runtime is made and the cycle
\* runs on it, beginning with Self::new().
WTrigger ==
    /\ panic = "none"
    /\ w_pc = "next_event"
    /\ batch > 0
    /\ ContainsMarker(LastLine)
    /\ batch' = batch - 1
    /\ CycleBegins("event")
    /\ n_trig' = n_trig + 1
    /\ UNCHANGED << running, device, home, watched, log, events, writes,
                    n_marker, raced >>
    /\ UNCHANGED << envVars, panic, smVars, paVars >>

\* An event whose last line has the marker, and Runtime::new() is Err:
\* unwrap() panics.
WRuntimeErr ==
    /\ panic = "none"
    /\ w_pc = "next_event"
    /\ batch > 0
    /\ ContainsMarker(LastLine)
    /\ panic' = "runtime_new"
    /\ UNCHANGED << envVars, gcVars, smVars, paVars, wVars >>

\* What a write to the log file does to inotify.  (raced: an event of an
\* earlier write is still in the queue or in the batch being handled.)
Modified ==
    /\ events' = IF watched THEN events + 1 ELSE events
    /\ raced' = (raced \/ (watched /\ events + batch > 0))

\* Steam appends a line to its log.
LogAppend ==
    /\ writes < MaxWrites
    /\ writes' = writes + 1
    /\ \E line \in Lines :
          /\ log' = Append(log, line)
          /\ n_marker' = IF watched /\ line = "marker" THEN n_marker + 1 ELSE n_marker
    /\ Modified
    /\ UNCHANGED << w_pc, cycle, running, device, home, watched, batch,
                    cyc_apply, cyc_reload, n_trig >>
    /\ UNCHANGED << envVars, panic, gcVars, smVars, paVars >>

\* Steam truncates its log.
LogTruncate ==
    /\ writes < MaxWrites
    /\ writes' = writes + 1
    /\ log # << >>
    /\ log' = << >>
    /\ Modified
    /\ UNCHANGED << w_pc, cycle, running, device, home, watched, batch,
                    cyc_apply, cyc_reload, n_marker, n_trig >>
    /\ UNCHANGED << envVars, panic, gcVars, smVars, paVars >>

WNext ==
    \/ WIsRunning
    \/ WNotRunning
    \/ WNewNoContext
    \/ WNewOpenErr
    \/ WNewOpenOk
    \/ WDevice
    \/ WNoDevice
    \/ WPatched
    \/ WPatchFailed
    \/ WRebooted
    \/ WInotifyInit
    \/ WInotifyInitErr
    \/ WAddWatch
    \/ WAddWatchErr
    \/ WNoLogPath
    \/ WReadEvents
    \/ WReadEventsErr
    \/ WBatchDone
    \/ WOpenErr
    \/ WNoTrigger
    \/ WTrigger
    \/ WRuntimeErr

(***************************************************************************)
(* Specifications of the single functions.                                 *)
(***************************************************************************)
\* No call of get_context or send_message is in progress.
GcIdle ==
    /\ gc_pc = "idle"
    /\ gc_elapsed = 0
    /\ gc_result = None
    /\ gc_resp = << >>

SmIdle ==
    /\ sm_pc = "idle"
    /\ retries = 0
    /\ sm_attempts = 0
    /\ sm_failed = 0
    /\ sm_sent = 0
    /\ sm_disc = 0
    /\ sm_last = "none"
    /\ sm_prevSock = 0

\* No call of patch is in progress; nothing to patch.
PaIdle ==
    /\ patches = << >>
    /\ disk = [f \in Files |-> << >>]
    /\ pa_pc = "idle"
    /\ pa_run = 0
    /\ pa_i = 1
    /\ opened_files = << >>
    /\ pa_written = {}
    /\ pa_result = "none"
    /\ pa_reads = NoCounts
    /\ pa_writes = NoCounts
    /\ disk0 = disk

\* watch is not running.
WIdle ==
    /\ w_pc = "idle"
    /\ cycle = "none"
    /\ running = "unset"
    /\ device = FALSE
    /\ home = FALSE
    /\ watched = FALSE
    /\ log = << >>
    /\ events = 0
    /\ batch = 0
    /\ writes = 0
    /\ cyc_apply = "none"
    /\ cyc_reload = FALSE
    /\ n_marker = 0
    /\ n_trig = 0
    /\ raced = FALSE

\* get_context has just been called.
GcCalled ==
    /\ gc_pc = "check"
    /\ gc_elapsed = 0
    /\ gc_result = None
    /\ gc_resp = << >>

\* One call of get_context against an endpoint of any behaviour.
InitDiscover ==
    /\ latencies = CoarseLatencies
    /\ endpoint = "any"
    /\ panic = "none"
    /\ GcCalled
    /\ SmIdle
    /\ socket = 0
    /\ nextSock = 1
    /\ PaIdle
    /\ WIdle

SpecDiscover == InitDiscover /\ [][GcNext]_vars

\* One call of get_context against an endpoint that never lists the context:
\* every GET is refused, or answered with a body that has no matching tab.
InitTimeout ==
    /\ latencies = FineLatencies
    /\ endpoint = "nomatch"
    /\ panic = "none"
    /\ GcCalled
    /\ SmIdle
    /\ socket = 0
    /\ nextSock = 1
    /\ PaIdle
    /\ WIdle

NextTimeout ==
    \/ GcTimeout
    \/ GcGet
    \/ GcGetErr
    \/ GcBodyUnparseable
    \/ GcBodyTabs
    \/ GcSleep

\* The tokio runtime keeps polling the task, and its timers fire.
SpecTimeout == InitTimeout /\ [][NextTimeout]_vars /\ WF_vars(NextTimeout)

\* One call of send_message on a client that holds socket 1.
InitSend ==
    /\ latencies = CoarseLatencies
    /\ endpoint = "any"
    /\ panic = "none"
    /\ GcIdle
    /\ sm_pc = "loop"
    /\ retries = Retries
    /\ socket = 1
    /\ nextSock = 2
    /\ sm_attempts = 0
    /\ sm_failed = 0
    /\ sm_sent = 0
    /\ sm_disc = 0
    /\ sm_last = "none"
    /\ sm_prevSock = 1
    /\ PaIdle
    /\ WIdle

NextSend == SmNext \/ GcNext

SpecSend == InitSend /\ [][NextSend]_vars

\* The second of two applications in succession begins.
PaAgain ==
    /\ panic = "none"
    /\ pa_pc = "ret"
    /\ pa_result = "Ok"
    /\ pa_run = 1
    /\ pa_run' = 2
    /\ PaCall
    /\ UNCHANGED << patches, disk >>
    /\ UNCHANGED << envVars, panic, gcVars, smVars, wVars >>

\* patch called on any rule list and any files, and called again when it
\* returned Ok.
InitPatch ==
    /\ latencies = CoarseLatencies
    /\ endpoint = "any"
    /\ panic = "none"
    /\ GcIdle
    /\ SmIdle
    /\ socket = 1
    /\ nextSock = 2
    /\ patches \in PatchLists
    /\ disk \in [Files -> Contents]
    /\ pa_pc = "rules"
    /\ pa_run = 1
    /\ pa_i = 1
    /\ opened_files = << >>
    /\ pa_written = {}
    /\ pa_result = "none"
    /\ pa_reads = NoCounts
    /\ pa_writes = NoCounts
    /\ disk0 = disk
    /\ WIdle

NextPatch == PaNext \/ PaAgain

SpecPatch == InitPatch /\ [][NextPatch]_vars

\* The patches of the device: none, one rule, two rules on one file, and
\* rules on two files.
DevicePatches ==
    LET P(f, from, to) ==
            [destination |-> f, text_to_find |-> from, replacement_text |-> to]
    IN { << >>,
         << P("f1", <<"a">>, <<"b">>) >>,
         << P("f1", <<"a">>, <<"b">>), P("f1", <<"b">>, <<"a", "a">>) >>,
         << P("f1", <<"a">>, <<"b">>), P("f2", <<"a", "b">>, <<"b">>) >> }

\* watch is called: the whole program.  (Without a device there are no
\* patches to speak of.)
Init ==
    /\ latencies = {LongGetMs}
    /\ endpoint = "program"
    /\ panic = "none"
    /\ GcIdle
    /\ SmIdle
    /\ socket = 0
    /\ nextSock = 1
    /\ device \in BOOLEAN
    /\ patches \in (IF device THEN DevicePatches ELSE {<< >>})
    /\ disk = [f \in Files |-> <<"a", "b">>]
    /\ pa_pc = "idle"
    /\ pa_run = 0
    /\ pa_i = 1
    /\ opened_files = << >>
    /\ pa_written = {}
    /\ pa_result = "none"
    /\ pa_reads = NoCounts
    /\ pa_writes = NoCounts
    /\ disk0 = disk
    /\ w_pc = "start"
    /\ cycle = "none"
    /\ running = "unset"
    /\ home \in BOOLEAN
    /\ watched = FALSE
    /\ log \in {<< >>, <<"other">>}
    /\ events = 0
    /\ batch = 0
    /\ writes = 0
    /\ cyc_apply = "none"
    /\ cyc_reload = FALSE
    /\ n_marker = 0
    /\ n_trig = 0
    /\ raced = FALSE

Next == WNext \/ GcNext \/ SmNext \/ PaNext \/ LogAppend \/ LogTruncate

Spec == Init /\ [][Next]_vars

(***************************************************************************)
(* The claims.                                                             *)
(***************************************************************************)

\* C1: one call of send_message makes socket-send attempts until the first
\* succeeds or 3 have failed (exactly 3 when all fail, none after a success),
\* and in every case returns normally: no panic escapes it.
C1_SendBoundedAndReturns ==
    /\ panic = "none"
    /\ sm_attempts <= 3
    /\ sm_sent <= 1
    /\ sm_attempts = sm_failed + sm_sent
    /\ (sm_sent = 1 => sm_pc = "ret")
    /\ (sm_pc = "ret" /\ sm_sent = 0 => sm_failed = 3)

\* C2: inside send_message each failed send is followed by exactly one
\* reconnect (one get_context call, then connect) before the next attempt;
\* self.socket is replaced by a fresh socket exactly when get_context and
\* connect both succeeded and is otherwise the socket the failed send used,
\* with the loop going on; one call runs get_context at most 3 times.
C2_ReconnectFrame ==
    /\ sm_disc <= 3
    /\ sm_disc = sm_failed
    /\ (sm_pc \in {"loop", "ret"} => sm_failed = 3 - retries)
    /\ (sm_pc = "wait_gc" => sm_failed = 3 - retries + 1 /\ socket = sm_prevSock)
    /\ (sm_pc \in {"loop", "ret"} /\ sm_last = "replaced" =>
            socket # sm_prevSock /\ socket = nextSock - 1)
    /\ (sm_pc \in {"loop", "ret"} /\ sm_last \in {"nodisc", "openerr"} =>
            socket = sm_prevSock)
    /\ (sm_last = "none" => socket = sm_prevSock /\ sm_failed <= 1)

\* C2 witness: a failed send whose reconnect found no context, then a failed
\* send whose reconnect replaced the socket.
C2_Witness ==
    /\ sm_pc = "loop"
    /\ sm_failed = 2
    /\ sm_last = "replaced"
    /\ socket = 2
    /\ sm_prevSock = 1

C4_WallClockCeiling ==
    gc_pc = "ret" => gc_elapsed <= 60000 + 50

\* C5: when get_context returns a URL, the response it polled has a tab
\* titled exactly "SharedJSContext" with a non-empty webSocketDebuggerUrl,
\* and the URL returned is that of the first such tab.
C5_FirstMatch ==
    gc_pc = "ret" /\ gc_result.some =>
        \E i \in 1..Len(gc_resp) :
            /\ gc_resp[i].title = "SharedJSContext"
            /\ gc_resp[i].webSocketDebuggerUrl # ""
            /\ gc_result.url = gc_resp[i].webSocketDebuggerUrl
            /\ \A j \in 1..(i - 1) :
                  \/ gc_resp[j].title # "SharedJSContext"
                  \/ gc_resp[j].webSocketDebuggerUrl = ""

\* C5 witness: the first tab has the title but an empty URL, the second tab
\* is the one selected.
C5_Witness ==
    /\ gc_pc = "ret"
    /\ gc_result = Some("ws://b")
    /\ Len(gc_resp) = 2
    /\ gc_resp[1] = [title |-> "SharedJSContext", webSocketDebuggerUrl |-> ""]
    /\ gc_resp[2] = [title |-> "SharedJSContext", webSocketDebuggerUrl |-> "ws://b"]

\* C6: no transport error (a refused connection, a failure while reading the
\* response body) and no malformed body is fatal to get_context: it never
\* panics.
C6_DiscoverNeverPanics ==
    gc_pc # "idle" => panic = "none"

\* The rules of patches that name file f.
C7_RulesOn(f) == {k \in 1..Len(patches) : patches[k].destination = f}

\* C7: in a call of patch that returns Ok, a file that N >= 1 rules name is
\* read exactly once and written exactly once, changed or not.
C7_ReadOnceWrittenOnce ==
    pa_pc = "ret" /\ pa_result = "Ok" =>
        \A f \in Files :
            C7_RulesOn(f) # {} => pa_reads[f] = 1 /\ pa_writes[f] = 1

\* C7 witness: two rules on f1, neither of which changes it.
C7_Witness ==
    /\ pa_pc = "ret"
    /\ pa_result = "Ok"
    /\ pa_run = 1
    /\ Cardinality(C7_RulesOn("f1")) = 2
    /\ disk = disk0
    /\ pa_reads["f1"] = 1
    /\ pa_writes["f1"] = 1

\* text occurs in s as a substring.
C8_Occurs(text, s) ==
    \E i \in 1..(Len(s) - Len(text) + 1) : SubSeq(s, i, i + Len(text) - 1) = text

\* No rule finds its text_to_find in the file it names, as the call found the files.
C8_NothingToFind ==
    \A k \in 1..Len(patches) :
        ~C8_Occurs(patches[k].text_to_find, disk0[patches[k].destination])

\* C8 as claimed: the second of two applications of the same rule list leaves
\* every file as the first application left it.
C8_Idempotent ==
    pa_run = 2 /\ pa_pc = "ret" /\ pa_result = "Ok" => disk = disk0

\* C8 as amended: it does so when, after the first application, no rule's
\* text_to_find occurs in the file the rule names.
C8_IdempotentWhenAbsent ==
    pa_run = 2 /\ pa_pc = "ret" /\ pa_result = "Ok" /\ C8_NothingToFind =>
        disk = disk0

\* C8 witness: a -> b has turned f1 from "a" into "b"; the second application
\* has run and finds no a.
C8_Witness ==
    /\ pa_run = 2
    /\ pa_pc = "ret"
    /\ pa_result = "Ok"
    /\ patches = << [destination |-> "f1", text_to_find |-> <<"a">>,
                     replacement_text |-> <<"b">>] >>
    /\ disk0["f1"] = <<"b">>
    /\ disk["f1"] = <<"b">>

\* The rules naming f applied one after the other, from rule k on, each to
\* the result of the one before.
RECURSIVE C9_InOrder(_, _, _)
C9_InOrder(f, content, k) ==
    IF k > Len(patches) THEN content
    ELSE IF patches[k].destination = f
         THEN C9_InOrder(f, Replace(content, patches[k].text_to_find,
                                    patches[k].replacement_text), k + 1)
         ELSE C9_InOrder(f, content, k + 1)

\* The characters of a text.
C9_Chars(s) == {s[i] : i \in 1..Len(s)}

\* C9: what patch writes to a file is the file's content with the rules
\* naming the file applied in list order, each replacing all occurrences in
\* the result of the rule before; so no single character that the last such
\* rule replaces by a text without it is left.
C9_SequentialReplaceAll ==
    pa_pc \in {"write", "ret"} =>
        \A f \in pa_written :
            /\ disk[f] = C9_InOrder(f, disk0[f], 1)
            /\ LET last == patches[CHOOSE k \in C7_RulesOn(f) :
                                      \A j \in C7_RulesOn(f) : j <= k]
               IN Len(last.text_to_find) = 1
                  /\ last.text_to_find[1] \notin C9_Chars(last.replacement_text)
                  => last.text_to_find[1] \notin C9_Chars(disk[f])

\* C9 witness: a -> b then b -> aa on f1 = "a": the b that the second rule
\* replaces exists only after the first rule.
C9_Witness ==
    /\ pa_pc = "ret"
    /\ pa_result = "Ok"
    /\ pa_run = 1
    /\ patches = << [destination |-> "f1", text_to_find |-> <<"a">>,
                     replacement_text |-> <<"b">>],
                    [destination |-> "f1", text_to_find |-> <<"b">>,
                     replacement_text |-> <<"a", "a">>] >>
    /\ disk0["f1"] = <<"a">>
    /\ disk["f1"] = <<"a", "a">>

\* C10: a file read failure or write failure in patch never crashes: patch
\* returns Err to watch, which logs it and still calls reboot in that cycle.
C10_IOErrorReturnedAndReloaded ==
    /\ panic # "read_to_string"
    /\ (cyc_apply = "Err" => cyc_reload)

\* The task waits for events, every event there was has been handled, and
\* nothing has panicked.
C11_Settled ==
    /\ w_pc = "armed"
    /\ events = 0
    /\ batch = 0
    /\ panic = "none"

\* C11 as stated: once every modify event has been handled, the task has begun
\* exactly one cycle for each marker line appended to the watched file, and
\* none for any other write.
C11_OneCyclePerMarkerLine == C11_Settled => n_trig = n_marker

\* C11, amended: when no write hit the watched file while the event of an
\* earlier write was still unhandled, then once every event has been handled
\* the task has begun exactly one cycle for each marker line appended and none
\* for any other write; and the event handled on an empty file begins no cycle
\* and does not panic.
C11_OneCyclePerUnracedWrite ==
    /\ [](C11_Settled /\ ~raced => n_trig = n_marker)
    /\ [][batch' = batch - 1 /\ log = << >> =>
              panic' = "none" /\ n_trig' = n_trig /\ cycle' = "none"]_vars

\* C11 witness: one marker line was appended to the watched file with no
\* other event pending, its cycle has run, and the task waits again.
C11_Witness ==
    /\ C11_Settled
    /\ ~raced
    /\ watched
    /\ n_marker = 1
    /\ n_trig = 1
    /\ log # << >>
    /\ log[Len(log)] = "marker"

\* C12: in every cycle the steps follow each other: patch runs only in a
\* cycle whose new() has returned a client and before reboot is called;
\* send_message (the reload) runs only in a cycle with a client, when patch is
\* not running and, where the device has patches, has returned; and the step
\* in which new() returns None ends the cycle with no patch call, no reboot
\* call and no panic.
C12_StrictlySequential ==
    /\ [](pa_pc # "idle" =>
             /\ w_pc = "patch"
             /\ cycle # "none"
             /\ socket # 0
             /\ gc_pc = "idle"
             /\ sm_pc = "idle"
             /\ cyc_apply = "none"
             /\ ~cyc_reload)
    /\ [](sm_pc # "idle" =>
             /\ w_pc = "reboot"
             /\ cycle # "none"
             /\ socket # 0
             /\ pa_pc = "idle"
             /\ cyc_reload
             /\ (device => cyc_apply \in {"Ok", "Err"}))
    /\ [](gc_pc # "idle" /\ sm_pc = "idle" => w_pc = "new" /\ socket = 0)
    /\ [][w_pc = "new" /\ w_pc' # "new" /\ socket' = 0 =>
              /\ cycle' = "none"
              /\ pa_pc' = "idle"
              /\ sm_pc' = "idle"
              /\ cyc_apply' = "none"
              /\ ~cyc_reload'
              /\ panic' = "none"]_vars

\* C12 witness: the startup cycle has patched f1 and reloaded, and then the
\* cycle of an event was ended by new() returning None: no patch call and no
\* reboot call in it, and the task is on to the next event.
C12_Witness ==
    /\ panic = "none"
    /\ running = "yes"
    /\ disk["f1"] # <<"a", "b">>
    /\ n_trig = 1
    /\ cycle = "none"
    /\ w_pc = "next_event"
    /\ cyc_apply = "none"
    /\ ~cyc_reload
    /\ socket = 0

\* No call of get_context, send_message or patch is in progress and no client
\* is held.
C13_NoCycleRunning ==
    /\ cycle = "none"
    /\ gc_pc = "idle"
    /\ sm_pc = "idle"
    /\ pa_pc = "idle"
    /\ socket = 0

\* C13: no two cycles are in progress at once: while the startup cycle runs
\* the task has not been started and no event has been read or handled; a
\* cycle begins only when none is running; and the task reads events and
\* handles the next event only when no cycle is running (so send_message and
\* patch are only ever called by the one cycle there is).
C13_OneCycleAtATime ==
    /\ [](cycle = "startup" =>
             /\ w_pc \in {"new", "device", "patch", "reboot"}
             /\ ~watched
             /\ events = 0
             /\ batch = 0
             /\ n_trig = 0)
    /\ [](cycle = "none" => gc_pc = "idle" /\ sm_pc = "idle" /\ pa_pc = "idle")
    /\ [][cycle' # cycle /\ cycle' # "none" => C13_NoCycleRunning]_vars
    /\ [][batch' # batch => C13_NoCycleRunning]_vars

\* C13 witness: after a startup cycle, the cycle of an event holds the client
\* and sends the reload while the next event of the batch waits.
C13_Witness ==
    /\ panic = "none"
    /\ running = "yes"
    /\ cycle = "event"
    /\ sm_pc = "loop"
    /\ socket # 0
    /\ batch = 1

\* C14: the startup cycle runs only when is_running() was true; when it was
\* false, watch goes from is_running() straight to setting up the watch, and
\* until the task begins the cycle of an event there is no get_context call,
\* no client, no patch call (no file read or written) and no reboot call.
C14_StartupGated ==
    /\ [](cycle = "startup" => running = "yes")
    /\ [](running = "no" /\ n_trig = 0 =>
             /\ C13_NoCycleRunning
             /\ cyc_apply = "none"
             /\ ~cyc_reload
             /\ pa_reads = NoCounts
             /\ pa_writes = NoCounts
             /\ disk = [f \in Files |-> <<"a", "b">>]
             /\ w_pc \in {"inotify", "add_watch", "armed", "next_event"})
    /\ [][w_pc = "start" /\ running' = "no" => w_pc' = "inotify"]_vars

\* C14 witness: is_running() was false, the watch is registered and the task
\* waits for events; nothing was connected, patched or reloaded.
C14_Witness ==
    /\ panic = "none"
    /\ running = "no"
    /\ w_pc = "armed"
    /\ watched
    /\ n_trig = 0
    /\ socket = 0
    /\ ~cyc_reload

\* C15: when the startup cycle's new() returns None only that cycle ends and
\* watch goes on to set up the watch: watch never returns because of it.
C15_StartupNoneStillArms == w_pc # "ret_none"

\* The background task has been spawned.
C16_TaskStarted == w_pc \in {"armed", "next_event"} \/ cycle = "event"

\* C16: the background task is never started without a MODIFY watch
\* registered on the log file, also when the log path cannot be resolved.
C16_NoLoopWithoutWatch == C16_TaskStarted => watched

\* C17: once the task has been started nothing stops it: whatever happens
\* while an event is handled (the log file cannot be opened, new() returns
\* None, patch fails, the send runs out of retries), no panic ends the task.
C17_WatcherNeverStops ==
    (watched \/ w_pc \in {"armed", "next_event"} \/ cycle = "event") => panic = "none"

\* C18: the step that handles an event begins a cycle if and only if the
\* last line of the log file at that moment has the marker, whatever was
\* appended before it, and no other step begins the cycle of an event.
C18_LastLineAtEventTime ==
    /\ [][batch' = batch - 1 =>
              IF log # << >> /\ log[Len(log)] = "marker"
              THEN n_trig' = n_trig + 1 /\ cycle' = "event" /\ w_pc' = "new"
              ELSE n_trig' = n_trig /\ cycle' = "none" /\ w_pc' = "next_event"]_vars
    /\ [][n_trig' # n_trig => batch' = batch - 1]_vars

\* C18 witness: a marker line was appended to the watched file and another
\* line after it before the events were handled: the batch has been handled
\* and no cycle was begun.
C18_Witness ==
    /\ panic = "none"
    /\ watched
    /\ n_marker = 1
    /\ log = <<"marker", "other">>
    /\ w_pc = "next_event"
    /\ cycle = "none"
    /\ events = 0
    /\ batch = 0
    /\ n_trig = 0

\* The files whose fs::write was called and failed.
C19_Failed == {f \in Files : pa_writes[f] > 0 /\ f \notin pa_written}

\* C19 as stated: when patch has returned Err, every file that was not
\* written, the one whose write failed among them, has the content it had
\* when patch was called.
C19_UnwrittenKeepPrevious ==
    pa_pc = "ret" /\ pa_result = "Err" =>
        \A f \in Files \ pa_written : disk[f] = disk0[f]

\* C19, amended: while patch processes its rules no file has been written;
\* when patch has returned Err exactly one fs::write has failed and none was
\* called after it, the files written before it have their new content, the
\* files whose write was not called have the content they had when patch was
\* called, and the file whose write failed has that content or is empty.
C19_NoRollbackNoFurtherWrite ==
    /\ (pa_pc = "rules" =>
          disk = disk0 /\ pa_writes = NoCounts /\ pa_written = {})
    /\ (pa_pc = "ret" /\ pa_result = "Err" =>
          /\ Cardinality(C19_Failed) = 1
          /\ \A f \in pa_written :
                pa_writes[f] = 1 /\ disk[f] = opened_files[f]
          /\ \A f \in C19_Failed :
                pa_writes[f] = 1 /\ disk[f] \in {disk0[f], << >>}
          /\ \A f \in Files \ (pa_written \cup C19_Failed) :
                pa_writes[f] = 0 /\ disk[f] = disk0[f])

\* C19 witness: f1 was written and changed, then the write of f2 failed and
\* left f2 as it was; patch has returned Err.
C19_Witness ==
    /\ pa_pc = "ret"
    /\ pa_result = "Err"
    /\ pa_written = {"f1"}
    /\ disk["f1"] # disk0["f1"]
    /\ disk["f1"] = opened_files["f1"]
    /\ pa_writes["f2"] = 1
    /\ disk["f2"] = disk0["f2"]
    /\ opened_files["f2"] # disk0["f2"]

\* C20: when send_message has returned, the client holds one socket, and it
\* is not a socket whose last send failed: after a failed send that was not
\* followed by a successful one the socket has been replaced by a new one.
C20_NoClosedConnectionObservable ==
    sm_pc = "ret" =>
        /\ socket # 0
        /\ (sm_failed > 0 /\ sm_sent = 0 => socket # sm_prevSock)

====
